---- MODULE Spec2Model ----
(***************************************************************************)
(* Model of the AVR DRAM tester firmware (src/src/main.cpp, util.hpp).     *)
(*                                                                         *)
(* The firmware is a single thread of control.  Every store to the control *)
(* port PORTC is one step of the model, so that the order of strobe edges  *)
(* is observable.  The DRAM chip on the other side of the pins reacts to   *)
(* the edges of RAS and CAS inside the step that makes the store.          *)
(*                                                                         *)
(* The port registers PORTB and PORTC keep their real bit layout.  The     *)
(* address bytes (uint8_t row, col; PORTD) are ByteBits wide and the march *)
(* counter (uint16_t address) is 2*ByteBits wide: the widths 8 and 16 of   *)
(* the source are scaled down together, keeping the wrap-around.           *)
(***************************************************************************)
EXTENDS Integers, Sequences, FiniteSets, TLC

\* Width of an address byte in the model (8 in the source).
ByteBits == 2

ByteMod == 2 ^ ByteBits
AddrMod == ByteMod * ByteMod
Byte == 0 .. (ByteMod - 1)

----------------------------------------------------------------------------
\* util.hpp

bit_mask(n) == 2 ^ n

RECURSIVE delay_cycles(_)
\* Number of nop instructions emitted by delay_cycles<N>()
delay_cycles(N) == IF N = 0 THEN 0 ELSE 1 + delay_cycles(N - 1)

----------------------------------------------------------------------------
\* Bitwise operators of C on 8-bit register values

RECURSIVE BitAndW(_, _, _)
BitAndW(a, b, w) ==
  IF w = 0 THEN 0
  ELSE (IF a % 2 = 1 /\ b % 2 = 1 THEN 1 ELSE 0) + 2 * BitAndW(a \div 2, b \div 2, w - 1)

BitAnd(a, b) == BitAndW(a, b, 8)
BitNot(a) == 255 - a
BitOr(a, b) == a + b - BitAnd(a, b)
BitXor(a, b) == BitOr(a, b) - BitAnd(a, b)

----------------------------------------------------------------------------
\* Pin assignment, main.cpp lines 10-39

DIN == bit_mask(5)
LED_G == bit_mask(4)
LED_R == bit_mask(3)
MODE_SEL == bit_mask(2)
A8 == bit_mask(1)
DOUT == bit_mask(0)

ERR == bit_mask(1)
RE == bit_mask(2)
WE == bit_mask(3)
RAS == bit_mask(4)
CAS == bit_mask(5)

CTRL_DEFAULT == BitOr(ERR, BitOr(RE, BitOr(WE, BitOr(RAS, CAS))))
CTRL_REFRESH == BitAnd(CTRL_DEFAULT, BitNot(RAS))
CTRL_READ_ROW == BitAnd(BitAnd(CTRL_DEFAULT, BitNot(RAS)), BitNot(RE))
CTRL_READ_COL == BitAnd(CTRL_READ_ROW, BitNot(CAS))
\* Mutant: WE is not pulled low
CTRL_WRITE_ROW_NoWE == BitAnd(CTRL_DEFAULT, BitNot(RAS))
CTRL_WRITE_ROW == BitAnd(BitAnd(CTRL_DEFAULT, BitNot(RAS)), BitNot(WE))
CTRL_WRITE_COL == BitAnd(CTRL_WRITE_ROW, BitNot(CAS))
CTRL_ERROR == BitAnd(CTRL_DEFAULT, BitNot(ERR))

\* enum Direction
UP == 0
DN == 1
\* enum Read { R0 = 0, R1 = DOUT, RX }
R0 == 0
R1 == DOUT
RX == 2
\* enum Write
W0 == 0
W1 == 1
WX == 2
\* enum Bit
Bit0 == 0
Bit1 == 1
BitX == 2
\* enum Chip
DRAM_4164 == 0
DRAM_41256 == 1

\* Timer 1 bits of TCCR1B and TIFR1 (avr/io.h)
ICES1 == 6
CS10 == 0

\* Median capture count used as the classification threshold, main.cpp 195
THRESHOLD == 5
\* Number of RAS-only wake-up cycles, main.cpp 78
WAKE_CYCLES == 8

----------------------------------------------------------------------------
VARIABLES
  pc,        \* position of the single thread of control
  ret,       \* where the running read()/write()/fail() returns to
  PORTB,     \* [ x x DIN LED_G LED_R SEL A8 DOUT ]
  PORTC,     \* [ x x CAS RAS WE RE ERR - ], active-low control lines
  PORTD,     \* multiplexed address A0..A7
  TCCR1B,    \* input capture timer control
  modeSel,   \* level of the MODE_SEL input pin
  dout,      \* level of the DOUT input pin, driven by the DRAM
  chip,      \* the DRAM chip installed in the socket
  fault,     \* the defects of the installed chip
  mem,       \* contents of the DRAM cells
  rowLatch,  \* <<A8, A0..A7>> latched by the DRAM when RAS fell
  i,         \* init_dram: wake-up loop counter
  CHIP,      \* template argument of march<CHIP>, chosen by main
  step,      \* march: which of the six march_step calls is running
  quad,      \* march_step: which of its march_once calls is running
  ROW_A8,    \* march_once: template arguments handed to read/write
  COL_A8,
  address,   \* march_once: uint16_t address; measure_rac: uint8_t address
  row,       \* read/write: arguments and template arguments of the call
  col,
  rA8,
  cA8,
  result,    \* read: sampled bit; march_once: value returned by read
  blinks,    \* measure_rac
  phase,
  \* Observations of the run, not read by the program
  reads,     \* per bus cell: read cycles in the running march_once pass
  writes,    \* per bus cell: write cycles in the running march_once pass
  loopIters, \* loop bodies started in the running march_once pass
  firstAddr, \* counter value used by the first loop body of the pass
  rowSeen,   \* per row byte: loop body that last strobed it with RAS
  rasInIter, \* RAS falling edges in the running loop body
  nops,      \* delay cycles since the last control-port store
  mismatches,\* read results that differed from READ, this march_step
  failCalls, \* fail() invocations, this march_step
  errFalls,  \* falling edges of ERR, this march_step
  failCells, \* cells whose read made march_once call fail(), this step
  failed,    \* fail() has returned at least once
  passed,    \* pass() has returned at least once
  stepLog,   \* march_step calls finished in the running march iteration
  lastAddr,  \* counter value used by the latest loop body of the pass
  latent,    \* defects the installed chip develops once it has warmed up
  probeLog,  \* bus cycles of the chip probe: <<WE level, bus cell, DIN>>
  quadLog,   \* per finished march_once pass of the running march_step:
             \* the <<A8 at RAS, A8 at CAS>> pairs its bus cycles used
  iterFailed,\* fail() was invoked in the running march iteration
  rasOnly,   \* RAS-only cycles seen on the bus: RAS rose, CAS never fell
  ICR1L      \* input capture register, low byte

regs == <<PORTB, PORTD, TCCR1B, ICR1L>>
pins == <<modeSel, chip, fault, latent>>
locals == <<i, CHIP, step, quad, ROW_A8, COL_A8, address, blinks, phase>>
args == <<row, col, rA8, cA8>>
\* what a store to the control port changes, the DRAM's reaction included
ctrl == <<PORTC, mem, rowLatch, dout, reads, writes, rowSeen, rasInIter, nops, errFalls, probeLog, rasOnly>>
hist == <<loopIters, firstAddr, lastAddr, mismatches, failCalls, failCells, failed, passed, stepLog, quadLog, iterFailed>>
vars == <<pc, ret, regs, pins, locals, args, result, ctrl, hist>>

----------------------------------------------------------------------------
\* The DRAM chip: asynchronous 4164 / 41256, early-write, active-low strobes

HasBit(v, m) == BitAnd(v, m) # 0
Fell(old, new, m) == HasBit(old, m) /\ ~HasBit(new, m)
BitOf(v, m) == IF HasBit(v, m) THEN 1 ELSE 0

\* A bus cell is <<A8 at RAS, A8 at CAS, row byte, column byte>>
BusCells == (0 .. 1) \X (0 .. 1) \X Byte \X Byte

\* The storage cell a bus cell selects: a 4164 has no A8 pin
CellOf(k, c) == IF k = DRAM_41256 THEN c ELSE <<0, 0, c[3], c[4]>>

\* Bus cell selected by the march counter value a, with both A8 bits low
AddrCell(a) == <<0, 0, a % ByteMod, a \div ByteMod>>

NoFault == [sa0 |-> {}, sa1 |-> {}, cf |-> {}]

\* The cell of the single stuck-at fault tried
StuckCell == <<0, 0, 2, 1>>

\* Value a cell holds after the defects of the chip have acted
Defects(f, m) ==
  [c \in BusCells |-> IF c \in f.sa1 THEN 1 ELSE IF c \in f.sa0 THEN 0 ELSE m[c]]

\* Early write of bit v to storage cell c; a rising write to the aggressor of
\* a coupling fault <<aggressor, victim>> forces the victim to 1
DramWrite(f, m, c, v) ==
  LET forced == {p[2] : p \in {q \in f.cf : q[1] = c /\ v = 1}}
  IN  Defects(f, [x \in BusCells |-> IF x = c THEN v ELSE IF x \in forced THEN 1 ELSE m[x]])

Sat(n, cap) == IF n < cap THEN n + 1 ELSE cap

\* PORTC = v, and what the chip and an observer of the bus see of it
StoreCtrl(v) ==
  LET rasFall == Fell(PORTC, v, RAS)
      casFall == Fell(PORTC, v, CAS) /\ ~HasBit(v, RAS)
      a8 == BitOf(PORTB, A8)
      latch == IF rasFall THEN <<a8, PORTD>> ELSE rowLatch
      bus == <<latch[1], a8, latch[2], PORTD>>
      cell == CellOf(chip, bus)
      isWrite == ~HasBit(v, WE)
  IN  /\ PORTC' = v
      /\ rowLatch' = latch
      /\ mem' = IF casFall /\ isWrite THEN DramWrite(fault, mem, cell, BitOf(PORTB, DIN)) ELSE mem
      /\ dout' = IF casFall /\ ~isWrite THEN mem[cell] ELSE dout
      /\ reads' = IF casFall /\ ~isWrite THEN [reads EXCEPT ![bus] = Sat(@, 2)] ELSE reads
      /\ writes' = IF casFall /\ isWrite THEN [writes EXCEPT ![bus] = Sat(@, 2)] ELSE writes
      /\ rowSeen' = IF rasFall THEN [rowSeen EXCEPT ![PORTD] = loopIters] ELSE rowSeen
      /\ rasInIter' = IF rasFall THEN Sat(rasInIter, 2) ELSE rasInIter
      /\ errFalls' = IF Fell(PORTC, v, ERR) THEN errFalls + 1 ELSE errFalls
      /\ nops' = 0
      /\ probeLog' = IF casFall /\ pc \in {"write_col", "read_col"} /\ step = 0
                     THEN Append(probeLog, <<BitOf(v, WE), bus, BitOf(PORTB, DIN)>>)
                     ELSE probeLog
      /\ rasOnly' = IF ~HasBit(PORTC, RAS) /\ HasBit(v, RAS) /\ HasBit(PORTC, CAS)
                    THEN Sat(rasOnly, WAKE_CYCLES + 1)
                    ELSE rasOnly

\* Value read from PINB: output pins read back PORTB, inputs read the pins
PINB ==
  BitOr(BitAnd(PORTB, BitOr(DIN, BitOr(LED_G, BitOr(LED_R, A8)))),
        BitOr(modeSel * MODE_SEL, dout * DOUT))

----------------------------------------------------------------------------
\* Initial state: the registers after reset, a chip in the socket

\* Defective chips tried, as sets of storage cells
Faults4164 ==
  { [NoFault EXCEPT !.sa1 = {StuckCell}],
    [NoFault EXCEPT !.sa1 = {AddrCell(0), AddrCell(1)}],
    [NoFault EXCEPT !.sa0 = {AddrCell(AddrMod - 1)}],
    [NoFault EXCEPT !.cf = {<<AddrCell(0), AddrCell(1)>>}] }

Faults41256 ==
  { [NoFault EXCEPT !.sa1 = {<<1, 0, 2, 1>>}] }

Scenarios ==
  [modeSel : {1}, chip : {DRAM_4164, DRAM_41256}, fill : {0, 1},
   fault : {NoFault}, latent : {NoFault}]
  \cup [modeSel : {1}, chip : {DRAM_4164}, fill : {0}, fault : Faults4164, latent : {NoFault}]
  \cup [modeSel : {1}, chip : {DRAM_41256}, fill : {0}, fault : Faults41256, latent : {NoFault}]
  \cup [modeSel : {1}, chip : {DRAM_4164}, fill : {0}, fault : {NoFault},
        latent : {[NoFault EXCEPT !.sa1 = {StuckCell}]}]
  \cup [modeSel : {0}, chip : {DRAM_4164}, fill : {0}, fault : {NoFault}, latent : {NoFault}]

Init ==
  \E s \in Scenarios :
    /\ modeSel = s.modeSel
    /\ chip = s.chip
    /\ fault = s.fault
    /\ latent = s.latent
    /\ mem = Defects(s.fault, [c \in BusCells |-> s.fill])
    /\ rowLatch = <<0, 0>>
    /\ dout = 0
    /\ pc = "config"
    /\ ret = "none"
    /\ PORTB = 0
    /\ PORTC = 0
    /\ PORTD = 0
    /\ TCCR1B = 0
    /\ i = 0
    /\ CHIP = DRAM_4164
    /\ step = 0
    /\ quad = 0
    /\ ROW_A8 = BitX
    /\ COL_A8 = BitX
    /\ address = 0
    /\ row = 0
    /\ col = 0
    /\ rA8 = BitX
    /\ cA8 = BitX
    /\ result = 0
    /\ blinks = 0
    /\ phase = 0
    /\ reads = [c \in BusCells |-> 0]
    /\ writes = [c \in BusCells |-> 0]
    /\ loopIters = 0
    /\ firstAddr = 0
    /\ lastAddr = 0
    /\ rowSeen = [r \in Byte |-> 0]
    /\ rasInIter = 0
    /\ nops = 0
    /\ mismatches = 0
    /\ failCalls = 0
    /\ errFalls = 0
    /\ failCells = {}
    /\ failed = FALSE
    /\ passed = FALSE
    /\ stepLog = <<>>
    /\ probeLog = <<>>
    /\ quadLog = <<>>
    /\ iterFailed = FALSE
    /\ rasOnly = 0
    /\ ICR1L = 0

\* A chip that worked when cold develops its latent defects once warm
Degrade ==
  /\ pc = "march_step"
  /\ step = 1
  /\ passed
  /\ latent # NoFault
  /\ fault = NoFault
  /\ fault' = latent
  /\ mem' = Defects(latent, mem)
  /\ UNCHANGED <<pc, ret, regs, modeSel, chip, latent, locals, args, result, hist>>
  /\ UNCHANGED <<PORTC, rowLatch, dout, reads, writes, rowSeen, rasInIter, nops, errFalls, probeLog, rasOnly>>

----------------------------------------------------------------------------
\* Start-up: config(), init_dram(), main

config ==
  /\ pc = "config"
  /\ PORTB' = MODE_SEL
  /\ StoreCtrl(CTRL_DEFAULT)
  /\ pc' = "init_dram"
  /\ UNCHANGED <<ret, PORTD, TCCR1B, ICR1L, pins, locals, args, result, hist>>

\* The 500us timer wait, then the wake-up loop is entered
init_dram ==
  /\ pc = "init_dram"
  /\ i' = WAKE_CYCLES
  /\ pc' = "wake_low"
  /\ UNCHANGED <<ret, regs, pins, CHIP, step, quad, ROW_A8, COL_A8, address, blinks, phase>>
  /\ UNCHANGED <<args, result, ctrl, hist>>

wake_low ==
  /\ pc = "wake_low"
  /\ StoreCtrl(CTRL_REFRESH)
  /\ pc' = "wake_delay"
  /\ UNCHANGED <<ret, regs, pins, locals, args, result, hist>>

wake_delay ==
  /\ pc = "wake_delay"
  /\ nops' = nops + delay_cycles(2)
  /\ pc' = "wake_high"
  /\ UNCHANGED <<ret, regs, pins, locals, args, result, hist>>
  /\ UNCHANGED <<PORTC, mem, rowLatch, dout, reads, writes, rowSeen, rasInIter, errFalls, probeLog, rasOnly>>

\* Mutant: the loop counts down to 1
wake_high_StopsAtOne ==
  /\ pc = "wake_high"
  /\ StoreCtrl(CTRL_DEFAULT)
  /\ i' = i - 1
  /\ pc' = IF i - 1 > 1 THEN "wake_low" ELSE "main"
  /\ UNCHANGED <<ret, regs, pins, CHIP, step, quad, ROW_A8, COL_A8, address, blinks, phase>>
  /\ UNCHANGED <<args, result, hist>>

\* PORTC = CTRL_DEFAULT of the wake-up loop, and its loop test, lines 78-82
wake_high ==
  /\ pc = "wake_high"
  /\ StoreCtrl(CTRL_DEFAULT)
  /\ i' = i - 1
  /\ pc' = IF i - 1 # 0 THEN "wake_low" ELSE "main"
  /\ UNCHANGED <<ret, regs, pins, CHIP, step, quad, ROW_A8, COL_A8, address, blinks, phase>>
  /\ UNCHANGED <<args, result, hist>>

\* Mutant: the test of the input is inverted
is_measure_mode_High == BitAnd(PINB, MODE_SEL) # 0

\* is_measure_mode(): the mode-select input reads low
is_measure_mode == BitAnd(PINB, MODE_SEL) = 0

\* main after init_dram(): the mode-select input is sampled once
main ==
  /\ pc = "main"
  /\ pc' = IF is_measure_mode THEN "measure_rac" ELSE "is_41256"
  /\ UNCHANGED <<ret, regs, pins, locals, args, result, ctrl, hist>>

----------------------------------------------------------------------------
\* Indicators

\* Mutant: green is set without looking at red
pass_Unconditional(pb) == BitOr(pb, LED_G)

\* Mutant: the green LED is left alone
pass_NeverGreen(pb) == pb

\* pass(): PORTB after the call
pass(pb) == IF BitAnd(pb, LED_R) = 0 THEN BitOr(pb, LED_G) ELSE pb

\* Mutant: the store leaves ERR high
fail_err_NoPulse ==
  /\ pc = "fail"
  /\ StoreCtrl(CTRL_DEFAULT)
  /\ failCalls' = failCalls + 1
  /\ iterFailed' = TRUE
  /\ pc' = "fail_red"
  /\ UNCHANGED <<ret, regs, pins, locals, args, result>>
  /\ UNCHANGED <<loopIters, firstAddr, lastAddr, mismatches, failCells, failed, passed, stepLog, quadLog>>

\* fail(), one store per step
fail_err ==
  /\ pc = "fail"
  /\ StoreCtrl(CTRL_ERROR)
  /\ failCalls' = failCalls + 1
  /\ iterFailed' = TRUE
  /\ pc' = "fail_red"
  /\ UNCHANGED <<ret, regs, pins, locals, args, result>>
  /\ UNCHANGED <<loopIters, firstAddr, lastAddr, mismatches, failCells, failed, passed, stepLog, quadLog>>

\* Mutant: the store sets the green bit instead of the red bit
fail_red_SetsGreen ==
  /\ pc = "fail_red"
  /\ PORTB' = BitOr(PORTB, LED_G)
  /\ pc' = "fail_green"
  /\ UNCHANGED <<ret, PORTD, TCCR1B, ICR1L, pins, locals, args, result, ctrl, hist>>

fail_red ==
  /\ pc = "fail_red"
  /\ PORTB' = BitOr(PORTB, LED_R)
  /\ pc' = "fail_green"
  /\ UNCHANGED <<ret, PORTD, TCCR1B, ICR1L, pins, locals, args, result, ctrl, hist>>

fail_green ==
  /\ pc = "fail_green"
  /\ PORTB' = BitAnd(PORTB, BitNot(LED_G))
  /\ failed' = TRUE
  /\ pc' = ret
  /\ UNCHANGED <<ret, PORTD, TCCR1B, ICR1L, pins, locals, args, result, ctrl>>
  /\ UNCHANGED <<loopIters, firstAddr, lastAddr, mismatches, failCalls, failCells, passed, stepLog, quadLog, iterFailed>>

----------------------------------------------------------------------------
\* Bus cycles

\* set_a8<BIT>(): PORTB after the call
set_a8(BIT, pb) ==
  IF BIT = Bit0 THEN BitAnd(pb, BitNot(A8))
  ELSE IF BIT = Bit1 THEN BitOr(pb, A8)
  ELSE pb

\* Mutant: DIN is driven high for W1 only
set_data_OnlyW1(WRITE, pb) ==
  IF WRITE = W1 THEN BitOr(pb, DIN) ELSE BitAnd(pb, BitNot(DIN))

\* set_data<WRITE>(): PORTB after the call
set_data(WRITE, pb) ==
  IF WRITE = W0 THEN BitAnd(pb, BitNot(DIN)) ELSE BitOr(pb, DIN)

\* Place an address byte and the A8 bit that goes with it
PlaceAddr(from, byte, BIT, to) ==
  /\ pc = from
  /\ PORTD' = byte
  /\ PORTB' = set_a8(BIT, PORTB)
  /\ pc' = to
  /\ UNCHANGED <<ret, TCCR1B, ICR1L, pins, locals, args, result, ctrl, hist>>

\* One store to the control port
Strobe(from, v, to) ==
  /\ pc = from
  /\ StoreCtrl(v)
  /\ pc' = to
  /\ UNCHANGED <<ret, regs, pins, locals, args, result, hist>>

Delay(from, N, to) ==
  /\ pc = from
  /\ nops' = nops + delay_cycles(N)
  /\ pc' = to
  /\ UNCHANGED <<ret, regs, pins, locals, args, result, hist>>
  /\ UNCHANGED <<PORTC, mem, rowLatch, dout, reads, writes, rowSeen, rasInIter, errFalls, probeLog, rasOnly>>

read_row_addr == PlaceAddr("read", row, rA8, "read_row")
read_row == Strobe("read_row", CTRL_READ_ROW, "read_col_addr")
read_col_addr == PlaceAddr("read_col_addr", col, cA8, "read_col")
read_col == Strobe("read_col", CTRL_READ_COL, "read_delay")

\* Mutant: one delay cycle fewer
read_delay_Short == Delay("read_delay", 2, "read_sample")

\* delay_cycles<3>(), line 107
read_delay == Delay("read_delay", 3, "read_sample")

read_sample ==
  /\ pc = "read_sample"
  /\ result' = BitAnd(PINB, DOUT)
  /\ pc' = "read_reset"
  /\ UNCHANGED <<ret, regs, pins, locals, args, ctrl, hist>>

read_reset == Strobe("read_reset", CTRL_DEFAULT, ret)

write_row_addr == PlaceAddr("write", row, rA8, "write_row")
write_row == Strobe("write_row", CTRL_WRITE_ROW, "write_col_addr")
write_col_addr == PlaceAddr("write_col_addr", col, cA8, "write_col")
write_col == Strobe("write_col", CTRL_WRITE_COL, "write_delay")
write_delay == Delay("write_delay", 1, "write_reset")
write_reset == Strobe("write_reset", CTRL_DEFAULT, ret)

\* Calls read<ra, ca>(r, c) or write<ra, ca>(r, c), to return to `to`
Call(fn, r, c, ra, ca, to) ==
  /\ row' = r
  /\ col' = c
  /\ rA8' = ra
  /\ cA8' = ca
  /\ ret' = to
  /\ pc' = fn

----------------------------------------------------------------------------
\* Chip probe is_41256()

probe_write1 ==
  /\ pc = "is_41256"
  /\ PORTB' = set_data(W1, PORTB)
  /\ Call("write", 0, 0, Bit0, Bit0, "probe_write0")
  /\ UNCHANGED <<PORTD, TCCR1B, ICR1L, pins, locals, result, ctrl, hist>>

\* Mutant: the second write goes to the lower bank as well
probe_write0_LowerBank ==
  /\ pc = "probe_write0"
  /\ PORTB' = set_data(W0, PORTB)
  /\ Call("write", 0, 0, Bit0, Bit0, "probe_read")
  /\ UNCHANGED <<PORTD, TCCR1B, ICR1L, pins, locals, result, ctrl, hist>>

probe_write0 ==
  /\ pc = "probe_write0"
  /\ PORTB' = set_data(W0, PORTB)
  /\ Call("write", 0, 0, Bit1, Bit1, "probe_read")
  /\ UNCHANGED <<PORTD, TCCR1B, ICR1L, pins, locals, result, ctrl, hist>>

probe_read ==
  /\ pc = "probe_read"
  /\ Call("read", 0, 0, Bit0, Bit0, "probe_return")
  /\ UNCHANGED <<regs, pins, locals, result, ctrl, hist>>

is_41256 == result = R1

\* main: the probe returns and march<CHIP>() is entered
probe_return ==
  /\ pc = "probe_return"
  /\ CHIP' = IF is_41256 THEN DRAM_41256 ELSE DRAM_4164
  /\ step' = 1
  /\ pc' = "march_step"
  /\ UNCHANGED <<ret, regs, pins, i, quad, ROW_A8, COL_A8, address, blinks, phase>>
  /\ UNCHANGED <<args, result, ctrl, hist>>

----------------------------------------------------------------------------
\* March engine

\* Mutant: the third step expects 0 where it has to expect 1
MarchSteps_R0Twice ==
  << [dir |-> UP, read |-> RX, write |-> W0],
     [dir |-> UP, read |-> R0, write |-> W1],
     [dir |-> UP, read |-> R0, write |-> W0],
     [dir |-> DN, read |-> R0, write |-> W1],
     [dir |-> DN, read |-> R1, write |-> W0],
     [dir |-> DN, read |-> R0, write |-> WX] >>

\* Mutant: the fifth step runs upwards
MarchSteps_FifthUp ==
  << [dir |-> UP, read |-> RX, write |-> W0],
     [dir |-> UP, read |-> R0, write |-> W1],
     [dir |-> UP, read |-> R1, write |-> W0],
     [dir |-> DN, read |-> R0, write |-> W1],
     [dir |-> UP, read |-> R1, write |-> W0],
     [dir |-> DN, read |-> R0, write |-> WX] >>

\* The six march_step calls of march(), lines 291-296, with the defaulted
\* template arguments of lines 275-284 filled in
MarchSteps ==
  << [dir |-> UP, read |-> RX, write |-> W0],
     [dir |-> UP, read |-> R0, write |-> W1],
     [dir |-> UP, read |-> R1, write |-> W0],
     [dir |-> DN, read |-> R0, write |-> W1],
     [dir |-> DN, read |-> R1, write |-> W0],
     [dir |-> DN, read |-> R0, write |-> WX] >>

DIR == MarchSteps[step].dir
READ == MarchSteps[step].read
WRITE == MarchSteps[step].write

\* Mutant: the two middle quadrants exchanged
MarchOnceCalls_MiddleSwapped(C, dir) ==
  IF C = DRAM_41256
  THEN IF dir = UP
       THEN << <<Bit0, Bit0>>, <<Bit0, Bit1>>, <<Bit1, Bit0>>, <<Bit1, Bit1>> >>
       ELSE << <<Bit1, Bit1>>, <<Bit1, Bit0>>, <<Bit0, Bit1>>, <<Bit0, Bit0>> >>
  ELSE << <<BitX, BitX>> >>

\* Mutant: DN runs the quadrants in the order of UP
MarchOnceCalls_DownAsUp(C, dir) ==
  IF C = DRAM_41256
  THEN << <<Bit0, Bit0>>, <<Bit1, Bit0>>, <<Bit0, Bit1>>, <<Bit1, Bit1>> >>
  ELSE << <<BitX, BitX>> >>

\* The march_once calls of march_step<CHIP, dir, ..>, as <<ROW_A8, COL_A8>>
MarchOnceCalls(C, dir) ==
  IF C = DRAM_41256
  THEN IF dir = UP
       THEN << <<Bit0, Bit0>>, <<Bit1, Bit0>>, <<Bit0, Bit1>>, <<Bit1, Bit1>> >>
       ELSE << <<Bit1, Bit1>>, <<Bit0, Bit1>>, <<Bit1, Bit0>>, <<Bit0, Bit0>> >>
  ELSE << <<BitX, BitX>> >>

\* march_step<CHIP, DIR, READ, WRITE>() is entered
march_step ==
  /\ pc = "march_step"
  /\ PORTB' = set_data(WRITE, PORTB)
  /\ quad' = 1
  /\ pc' = "march_once"
  /\ mismatches' = 0
  /\ failCalls' = 0
  /\ errFalls' = 0
  /\ failCells' = {}
  /\ quadLog' = <<>>
  /\ UNCHANGED <<ret, PORTD, TCCR1B, ICR1L, pins, i, CHIP, step, ROW_A8, COL_A8, address, blinks, phase>>
  /\ UNCHANGED <<args, result, loopIters, firstAddr, lastAddr, failed, passed, stepLog, iterFailed>>
  /\ UNCHANGED <<PORTC, mem, rowLatch, dout, reads, writes, rowSeen, rasInIter, nops, probeLog, rasOnly>>

\* march_once<DIR, READ, WRITE, ROW_A8, COL_A8>() is entered
march_once ==
  /\ pc = "march_once"
  /\ LET t == MarchOnceCalls(CHIP, DIR)[quad]
         same == t[1] = t[2] /\ t[1] # BitX
     IN  /\ PORTB' = IF same THEN set_a8(t[1], PORTB) ELSE PORTB
         /\ ROW_A8' = IF same THEN BitX ELSE t[1]
         /\ COL_A8' = IF same THEN BitX ELSE t[2]
  /\ address' = 0
  /\ pc' = "loop"
  /\ reads' = [c \in BusCells |-> 0]
  /\ writes' = [c \in BusCells |-> 0]
  /\ rowSeen' = [r \in Byte |-> 0]
  /\ loopIters' = 0
  /\ UNCHANGED <<ret, PORTD, TCCR1B, ICR1L, pins, i, CHIP, step, quad, blinks, phase, args, result>>
  /\ UNCHANGED <<firstAddr, lastAddr, mismatches, failCalls, failCells, failed, passed, stepLog, quadLog, iterFailed>>
  /\ UNCHANGED <<PORTC, mem, rowLatch, dout, rasInIter, nops, errFalls, probeLog, rasOnly>>

\* The write of the loop body, line 243
DoWrite(r, c) ==
  IF WRITE # WX
  THEN Call("write", r, c, ROW_A8, COL_A8, "loop_end")
  ELSE /\ pc' = "loop_end"
       /\ row' = r
       /\ col' = c
       /\ UNCHANGED <<ret, rA8, cA8>>

\* if (DIR == DN) --address, on the uint16_t counter
PreDecrement(dir, a) == IF dir = DN THEN (a - 1) % AddrMod ELSE a

\* Mutant: the counter declared uint8_t
PostIncrement_uint8(dir, a) == IF dir = UP THEN (a + 1) % ByteMod ELSE a

\* if (DIR == UP) ++address, on the uint16_t counter
PostIncrement(dir, a) == IF dir = UP THEN (a + 1) % AddrMod ELSE a

\* col = address >> 8
MarchCol(a) == a \div ByteMod

\* Mutant: the high byte of the counter is used as the row
MarchRow_HighByte(a) == a \div ByteMod

\* row = address & 0xFF
MarchRow(a) == a % ByteMod

\* The counter values the do-while loop of march_once<dir> visits from counter
\* value a on, lines 237-246
RECURSIVE LoopFrom(_, _, _)
LoopFrom(dir, a, fuel) ==
  LET v == PreDecrement(dir, a)
      n == PostIncrement(dir, v)
  IN  <<v>> \o (IF n # 0 /\ fuel > 1 THEN LoopFrom(dir, n, fuel - 1) ELSE <<>>)

\* The cells one march_once<ROW_A8, COL_A8, dir> visits, in order
OnceVisits(q, dir) ==
  LET as == LoopFrom(dir, 0, AddrMod)
      ra == IF q[1] = Bit1 THEN 1 ELSE 0
      ca == IF q[2] = Bit1 THEN 1 ELSE 0
  IN  [k \in 1..Len(as) |-> <<ra, ca, MarchRow(as[k]), MarchCol(as[k])>>]

RECURSIVE Concat(_)
Concat(ss) == IF ss = <<>> THEN <<>> ELSE Head(ss) \o Concat(Tail(ss))

\* The cells one march_step<C, dir, ..> visits, in order
StepVisits ==
  [C \in {DRAM_4164, DRAM_41256}, dir \in {UP, DN} |->
     Concat([k \in 1..Len(MarchOnceCalls(C, dir)) |-> OnceVisits(MarchOnceCalls(C, dir)[k], dir)])]

\* Top of the loop body, lines 239-242
loop_top ==
  /\ pc = "loop"
  /\ LET a == PreDecrement(DIR, address)
     IN  /\ address' = a
         /\ firstAddr' = IF loopIters = 0 THEN a ELSE firstAddr
         /\ lastAddr' = a
         /\ IF READ # RX
            THEN Call("read", MarchRow(a), MarchCol(a), ROW_A8, COL_A8, "after_read")
            ELSE DoWrite(MarchRow(a), MarchCol(a))
  /\ loopIters' = Sat(loopIters, AddrMod + 1)
  /\ rasInIter' = 0
  /\ UNCHANGED <<regs, pins, i, CHIP, step, quad, ROW_A8, COL_A8, blinks, phase, result>>
  /\ UNCHANGED <<mismatches, failCalls, failCells, failed, passed, stepLog, quadLog, iterFailed>>
  /\ UNCHANGED <<PORTC, mem, rowLatch, dout, reads, writes, rowSeen, nops, errFalls, probeLog, rasOnly>>

\* Mutant: a mismatch ends the pass
after_read_Abort ==
  /\ pc = "after_read"
  /\ IF result # READ
     THEN /\ pc' = "fail"
          /\ ret' = "once_return"
          /\ mismatches' = mismatches + 1
          /\ failCells' = failCells \cup {<<rowLatch[1], BitOf(PORTB, A8), row, col>>}
          /\ UNCHANGED args
     ELSE /\ DoWrite(row, col)
          /\ UNCHANGED <<mismatches, failCells>>
  /\ UNCHANGED <<regs, pins, locals, result, ctrl>>
  /\ UNCHANGED <<loopIters, firstAddr, lastAddr, failCalls, failed, passed, stepLog, quadLog, iterFailed>>

\* read() has returned: the comparison of line 242
after_read ==
  /\ pc = "after_read"
  /\ IF result # READ
     THEN /\ pc' = "fail"
          /\ ret' = "do_write"
          /\ mismatches' = mismatches + 1
          /\ failCells' = failCells \cup {<<rowLatch[1], BitOf(PORTB, A8), row, col>>}
          /\ UNCHANGED args
     ELSE /\ DoWrite(row, col)
          /\ UNCHANGED <<mismatches, failCells>>
  /\ UNCHANGED <<regs, pins, locals, result, ctrl>>
  /\ UNCHANGED <<loopIters, firstAddr, lastAddr, failCalls, failed, passed, stepLog, quadLog, iterFailed>>

\* fail() has returned into the loop body
do_write ==
  /\ pc = "do_write"
  /\ DoWrite(row, col)
  /\ UNCHANGED <<regs, pins, locals, result, ctrl, hist>>

\* Bottom of the loop body, lines 244-245
loop_end ==
  /\ pc = "loop_end"
  /\ LET a == PostIncrement(DIR, address)
     IN  /\ address' = a
         /\ pc' = IF a # 0 THEN "loop" ELSE "once_return"
  /\ UNCHANGED <<ret, regs, pins, i, CHIP, step, quad, ROW_A8, COL_A8, blinks, phase>>
  /\ UNCHANGED <<args, result, ctrl, hist>>

\* march_once() has returned to march_step, and march_step to march()
once_return ==
  /\ pc = "once_return"
  /\ IF quad < Len(MarchOnceCalls(CHIP, DIR))
     THEN /\ quad' = quad + 1
          /\ pc' = "march_once"
          /\ UNCHANGED <<step, stepLog>>
     ELSE /\ quad' = 0
          /\ stepLog' = Append(stepLog, step)
          /\ IF step < Len(MarchSteps)
             THEN step' = step + 1 /\ pc' = "march_step"
             ELSE step' = step /\ pc' = "pass"
  /\ UNCHANGED <<ret, regs, pins, i, CHIP, ROW_A8, COL_A8, address, blinks, phase>>
  /\ quadLog' = Append(quadLog, {<<c[1], c[2]>> : c \in {x \in BusCells : reads[x] + writes[x] > 0}})
  /\ UNCHANGED <<args, result, ctrl>>
  /\ UNCHANGED <<loopIters, firstAddr, lastAddr, mismatches, failCalls, failCells, failed, passed, iterFailed>>

\* End of a march iteration, line 297, and the jump back to line 291
march_pass ==
  /\ pc = "pass"
  /\ PORTB' = pass(PORTB)
  /\ passed' = TRUE
  /\ step' = 1
  /\ stepLog' = <<>>
  /\ iterFailed' = FALSE
  /\ pc' = "march_step"
  /\ UNCHANGED <<ret, PORTD, TCCR1B, ICR1L, pins, i, CHIP, quad, ROW_A8, COL_A8, address, blinks, phase>>
  /\ UNCHANGED <<args, result, ctrl>>
  /\ UNCHANGED <<loopIters, firstAddr, lastAddr, mismatches, failCalls, failCells, failed, quadLog>>

----------------------------------------------------------------------------
\* Measurement mode measure_rac()

\* uint16_t phase: a low byte, two bits of blink phase, two bits of blink
\* index; the bits above them are never read, so phase wraps after these
PhaseMod == 16 * ByteMod

\* Counts the input capture register may hold when the flag is tested
CaptureCounts == (THRESHOLD - 1) .. (THRESHOLD + 1)

measure_rac ==
  /\ pc = "measure_rac"
  /\ address' = 0
  /\ pc' = "measure_toggle"
  /\ UNCHANGED <<ret, regs, pins, i, CHIP, step, quad, ROW_A8, COL_A8, blinks, phase>>
  /\ UNCHANGED <<args, result, ctrl, hist>>

\* PINB |= DIN: the bits written as 1 to PINB toggle PORTB; PORTD = address
measure_toggle ==
  /\ pc = "measure_toggle"
  /\ PORTB' = BitXor(PORTB, BitOr(PINB, DIN))
  /\ PORTD' = address
  /\ pc' = "measure_write_row"
  /\ UNCHANGED <<ret, TCCR1B, ICR1L, pins, locals, args, result, ctrl, hist>>

measure_write_row == Strobe("measure_write_row", CTRL_WRITE_ROW, "measure_write_col")
measure_write_col == Strobe("measure_write_col", CTRL_WRITE_COL, "measure_write_reset")

\* ++address; PORTC = CTRL_DEFAULT; while (address != 0); then lines 172-173
measure_write_reset ==
  /\ pc = "measure_write_reset"
  /\ StoreCtrl(CTRL_DEFAULT)
  /\ address' = (address + 1) % ByteMod
  /\ IF (address + 1) % ByteMod # 0
     THEN pc' = "measure_toggle" /\ UNCHANGED <<blinks, phase>>
     ELSE pc' = "measure_read" /\ blinks' = 2 /\ phase' = 0
  /\ UNCHANGED <<ret, regs, pins, i, CHIP, step, quad, ROW_A8, COL_A8, args, result, hist>>

\* Lines 176-182: the capture timer is armed and the address is placed
measure_read ==
  /\ pc = "measure_read"
  /\ TCCR1B' = BitOr(BitXor(TCCR1B, bit_mask(ICES1)), bit_mask(CS10))
  /\ PORTD' = address
  /\ pc' = "measure_read_row"
  /\ failCalls' = 0
  /\ errFalls' = 0
  /\ UNCHANGED <<ret, PORTB, ICR1L, pins, locals, args, result>>
  /\ UNCHANGED <<loopIters, firstAddr, lastAddr, mismatches, failCells, failed, passed, stepLog, quadLog, iterFailed>>
  /\ UNCHANGED <<PORTC, mem, rowLatch, dout, reads, writes, rowSeen, rasInIter, nops, probeLog, rasOnly>>

measure_read_row == Strobe("measure_read_row", CTRL_READ_ROW, "measure_read_col")
measure_read_col == Strobe("measure_read_col", CTRL_READ_COL, "measure_test")

\* Lines 187-203: the delay, ++address and the test of the capture flag;
\* whether the timer captured an edge, and its count, are inputs
measure_test ==
  /\ pc = "measure_test"
  /\ nops' = nops + delay_cycles(2)
  /\ address' = (address + 1) % ByteMod
  /\ \E captured \in BOOLEAN, count \in CaptureCounts :
       IF captured
       THEN /\ ICR1L' = count
            /\ blinks' = IF count > THRESHOLD THEN 3
                         ELSE IF count < THRESHOLD THEN 1
                         ELSE blinks
            /\ pc' = "measure_reset"
            /\ UNCHANGED ret
       ELSE /\ pc' = "fail"
            /\ ret' = "measure_reset"
            /\ UNCHANGED <<blinks, ICR1L>>
  /\ UNCHANGED <<PORTB, PORTD, TCCR1B, pins, i, CHIP, step, quad, ROW_A8, COL_A8, phase, args, result, hist>>
  /\ UNCHANGED <<PORTC, mem, rowLatch, dout, reads, writes, rowSeen, rasInIter, errFalls, probeLog, rasOnly>>

\* Lines 204-207
measure_reset ==
  /\ pc = "measure_reset"
  /\ StoreCtrl(CTRL_DEFAULT)
  /\ TCCR1B' = BitAnd(TCCR1B, BitNot(bit_mask(CS10)))
  /\ pc' = "measure_blink"
  /\ UNCHANGED <<ret, PORTB, PORTD, ICR1L, pins, locals, args, result, hist>>

\* Lines 210-219: PORTB after the blink code
Blink(pb, ph, n) ==
  IF ph % ByteMod = 0
  THEN IF (ph \div ByteMod) % 4 = 0 /\ (ph \div (4 * ByteMod)) % 4 < n
       THEN BitOr(pb, LED_G)
       ELSE IF (ph \div ByteMod) % 4 = 2
            THEN BitAnd(pb, BitNot(LED_G))
            ELSE pb
  ELSE pb

measure_blink ==
  /\ pc = "measure_blink"
  /\ IF address = 0
     THEN /\ PORTB' = Blink(PORTB, phase, blinks)
          /\ phase' = (phase + 1) % PhaseMod
     ELSE UNCHANGED <<PORTB, phase>>
  /\ pc' = "measure_read"
  /\ UNCHANGED <<ret, PORTD, TCCR1B, ICR1L, pins, i, CHIP, step, quad, ROW_A8, COL_A8, address, blinks>>
  /\ UNCHANGED <<args, result, ctrl, hist>>

----------------------------------------------------------------------------
Next ==
  \/ config \/ init_dram \/ wake_low \/ wake_delay \/ wake_high \/ main
  \/ probe_write1 \/ probe_write0 \/ probe_read \/ probe_return
  \/ read_row_addr \/ read_row \/ read_col_addr \/ read_col
  \/ read_delay \/ read_sample \/ read_reset
  \/ write_row_addr \/ write_row \/ write_col_addr \/ write_col
  \/ write_delay \/ write_reset
  \/ fail_err \/ fail_red \/ fail_green
  \/ march_step \/ march_once \/ loop_top \/ after_read \/ do_write
  \/ loop_end \/ once_return \/ march_pass
  \/ measure_rac \/ measure_toggle \/ measure_write_row \/ measure_write_col
  \/ measure_write_reset \/ measure_read \/ measure_read_row \/ measure_read_col
  \/ measure_test \/ measure_reset \/ measure_blink
  \/ Degrade

Spec == Init /\ [][Next]_vars

----------------------------------------------------------------------------
\* Properties

GreenOn == HasBit(PORTB, LED_G)
RedOn == HasBit(PORTB, LED_R)
TestMode == modeSel = 1
\* The chip had no defect when the probe and the first iteration ran
SoundAtStart == fault = NoFault \/ latent # NoFault
\* Read / write cycles of the running pass that strobed row byte r, column byte c
ReadsAt(r, c) == reads[<<0, 0, r, c>>] + reads[<<0, 1, r, c>>] + reads[<<1, 0, r, c>>] + reads[<<1, 1, r, c>>]
WritesAt(r, c) == writes[<<0, 0, r, c>>] + writes[<<0, 1, r, c>>] + writes[<<1, 0, r, c>>] + writes[<<1, 1, r, c>>]

\* C1: every march_once pass runs its loop body exactly AddrMod times (2^16
\* in the source) and strobes every (row, column) pair exactly once per read
\* and per write the step asks for; UP runs from counter 0 to the largest
\* value, DN from the largest value to 0, and the loop is left exactly when
\* the counter is 0 again.
C1_MarchOnceVisitsEachCellOnce ==
  /\ pc = "once_return" =>
       /\ loopIters = AddrMod
       /\ address = 0
       /\ firstAddr = (IF DIR = UP THEN 0 ELSE AddrMod - 1)
       /\ lastAddr = (IF DIR = UP THEN AddrMod - 1 ELSE 0)
       /\ \A r \in Byte, c \in Byte :
            /\ ReadsAt(r, c) = (IF READ # RX THEN 1 ELSE 0)
            /\ WritesAt(r, c) = (IF WRITE # WX THEN 1 ELSE 0)
  /\ (pc = "loop" /\ loopIters > 0) => (address # 0 /\ loopIters < AddrMod)
  /\ (TestMode /\ step >= 1 /\ pc \in {"read_delay", "write_delay"}) =>
       \A r \in Byte, c \in Byte : ReadsAt(r, c) <= 1 /\ WritesAt(r, c) <= 1

C1_Witness ==
  /\ pc = "once_return"
  /\ DIR = DN
  /\ READ = R1
  /\ CHIP = DRAM_41256
  /\ quad = 2
  /\ firstAddr = AddrMod - 1

\* C2: with a sound 4164 and mode-select high, fail() is never invoked, red
\* and the ERR pulse are never asserted, and green is on exactly from the
\* end of the first march iteration.
C2_SoundChipPasses ==
  (TestMode /\ chip = DRAM_4164 /\ fault = NoFault) =>
    /\ pc \notin {"fail", "fail_red", "fail_green"}
    /\ failCalls = 0
    /\ mismatches = 0
    /\ errFalls = 0
    /\ ~failed
    /\ ~RedOn
    /\ pc # "config" => HasBit(PORTC, ERR)
    /\ GreenOn <=> passed

C2_Witness ==
  /\ TestMode
  /\ chip = DRAM_4164
  /\ fault = NoFault
  /\ pc = "once_return"
  /\ step = 6
  /\ passed
  /\ GreenOn

OneStuckAt1 == fault = [NoFault EXCEPT !.sa1 = {StuckCell}] /\ latent = NoFault

C4_ProbeDetectsChip ==
  /\ pc = "probe_return" =>
       /\ probeLog = << <<0, <<0, 0, 0, 0>>, 1>>, <<0, <<1, 1, 0, 0>>, 0>>,
                        <<1, <<0, 0, 0, 0>>, 0>> >>
       /\ SoundAtStart => (is_41256 <=> chip = DRAM_41256)
       /\ (SoundAtStart /\ chip = DRAM_41256) => result = 1
       /\ (SoundAtStart /\ chip = DRAM_4164) => result = 0
  /\ (TestMode /\ step >= 1 /\ SoundAtStart) => CHIP = chip
  /\ (TestMode /\ step >= 1) => Len(probeLog) = 3

C4_Witness ==
  /\ chip = DRAM_41256
  /\ CHIP = DRAM_41256
  /\ fault = NoFault
  /\ pc = "loop"
  /\ step = 4
  /\ quad = 3

\* C5: once red is on, no store turns green on, in test mode and in
\* measurement mode.
C5_RedBlocksGreen ==
  [][RedOn => ~(~GreenOn /\ GreenOn')]_vars

\* C6: in test mode, once fail() has returned red is on and green is off in
\* every later state, whatever passes, pass() and fail() calls follow; both
\* LEDs are on only inside fail(), between its two stores to PORTB.
C6_RedIsAbsorbing ==
  TestMode =>
    /\ failed => (RedOn /\ ~GreenOn)
    /\ (RedOn /\ GreenOn) => pc = "fail_green"

C6_Witness ==
  /\ TestMode
  /\ latent # NoFault
  /\ failed
  /\ pc = "march_step"
  /\ step = 1
  /\ stepLog = <<>>
  /\ RedOn
  /\ ~GreenOn

\* C7: in test mode every fail() makes one falling edge of ERR of its own:
\* ERR is high again whenever fail() is entered, so the falling edges of ERR,
\* the fail() calls and the read mismatches of a step are equal in number.
C7_OnePulsePerFail ==
  TestMode =>
    /\ errFalls = failCalls
    /\ mismatches = failCalls + (IF pc = "fail" THEN 1 ELSE 0)
    /\ pc = "fail" => HasBit(PORTC, ERR)
    /\ pc \in {"fail_red", "fail_green"} => ~HasBit(PORTC, ERR)

C7_Witness ==
  /\ TestMode
  /\ pc = "pass"
  /\ WRITE = WX
  /\ {AddrCell(0), AddrCell(1)} \subseteq failCells
  /\ failCalls >= 2
  /\ errFalls = failCalls
  /\ ~HasBit(PORTC, ERR)

\* C8: the control port equals CTRL_DEFAULT on every entry to and every
\* return from read(), write() and a wake-up cycle, also after fail().
C8_IdleAtCycleBoundary ==
  (\/ pc \in {"read", "write", "wake_low"}
   \/ pc \in {"after_read", "probe_write0", "probe_read", "probe_return", "main"}
   \/ (pc = "loop_end" /\ WRITE # WX))
  => PORTC = CTRL_DEFAULT

WritePcs ==
  {"write", "write_row", "write_col_addr", "write_col", "write_delay", "write_reset",
   "measure_toggle", "measure_write_row", "measure_write_col", "measure_write_reset"}

\* C9: in every write cycle the store that makes CAS fall finds WE and RAS
\* already low and RE high and changes CAS only; while WE is low RAS is low
\* and RE is high, and WE rises only in the store that releases all lines.
C9_EarlyWrite ==
  [][/\ (pc \in WritePcs /\ Fell(PORTC, PORTC', CAS)) =>
          /\ ~HasBit(PORTC, WE)
          /\ ~HasBit(PORTC, RAS)
          /\ HasBit(PORTC, RE)
          /\ PORTC' = BitAnd(PORTC, BitNot(CAS))
     /\ (pc # "config" /\ ~HasBit(PORTC, WE) /\ PORTC' # PORTC) =>
          \/ PORTC' = CTRL_DEFAULT
          \/ ~HasBit(PORTC', WE) /\ ~HasBit(PORTC', RAS) /\ HasBit(PORTC', RE)
     /\ pc \in {"write_reset", "measure_write_reset"} =>
          /\ ~HasBit(PORTC, CAS)
          /\ ~HasBit(PORTC, WE)
          /\ PORTC' = CTRL_DEFAULT
    ]_vars

C9_Witness ==
  /\ pc = "write_delay"
  /\ step = 2
  /\ PORTC = CTRL_WRITE_COL
  /\ writes[<<0, 0, row, col>>] = 1

\* C10: at the end of every loop body of a pass, each row byte was strobed
\* with RAS in one of the last ByteMod loop bodies (256 in the source), and
\* the body itself strobed RAS at least once.
C10_RefreshCoverage ==
  (TestMode /\ pc = "loop_end") =>
    /\ rasInIter >= 1
    /\ rowSeen[MarchRow(lastAddr)] = loopIters
    /\ loopIters >= ByteMod => \A r \in Byte : rowSeen[r] > loopIters - ByteMod

C10_Witness ==
  /\ TestMode
  /\ pc = "loop_end"
  /\ DIR = DN
  /\ WRITE = WX
  /\ loopIters = 2 * ByteMod + 1

\* The quadrant order of a 41256 step, as <<row A8, column A8>>
QuadOrder(dir) ==
  IF dir = UP
  THEN << <<0, 0>>, <<1, 0>>, <<0, 1>>, <<1, 1>> >>
  ELSE << <<1, 1>>, <<0, 1>>, <<1, 0>>, <<0, 0>> >>

\* C11: on a 41256 every march_step runs exactly four march_once passes, one
\* per (row A8, column A8) pair, in the order (0,0), (1,0), (0,1), (1,1) for
\* UP and the reverse for DN; within a pass A8 carries the row bit when RAS
\* falls and the column bit when CAS falls, and every (row, column) pair of
\* that quadrant is strobed exactly once, so the step visits every cell of the
\* chip exactly once.
C11_FourQuadrantsInOrder ==
  /\ (CHIP = DRAM_41256 /\ pc = "once_return") =>
       /\ quad \in 1..4
       /\ quadLog = [k \in 1..(quad - 1) |-> {QuadOrder(DIR)[k]}]
       /\ \A x \in BusCells :
            LET here == <<x[1], x[2]>> = QuadOrder(DIR)[quad]
            IN  /\ reads[x] = (IF here /\ READ # RX THEN 1 ELSE 0)
                /\ writes[x] = (IF here /\ WRITE # WX THEN 1 ELSE 0)
  /\ (CHIP = DRAM_41256 /\ pc = "march_step" /\ step >= 2) =>
       quadLog = [k \in 1..4 |-> {QuadOrder(MarchSteps[step - 1].dir)[k]}]
  /\ (CHIP = DRAM_41256 /\ pc = "pass") =>
       quadLog = [k \in 1..4 |-> {QuadOrder(DN)[k]}]

C11_Witness ==
  /\ CHIP = DRAM_41256
  /\ pc = "once_return"
  /\ DIR = DN
  /\ READ = R1
  /\ quad = 4
  /\ Len(quadLog) = 3

\* March C-: direction, expected read value and written value of each step
\* ("-" where the step has no read or no write)
MarchCMinus ==
  << <<"UP", "-", "W0">>, <<"UP", "R0", "W1">>, <<"UP", "R1", "W0">>,
     <<"DN", "R0", "W1">>, <<"DN", "R1", "W0">>, <<"DN", "R0", "-">> >>

\* The bit a step's read expects or its write stores
BitNamed(s) == IF s \in {"R1", "W1"} THEN 1 ELSE 0

\* C12: every march iteration runs the six steps (UP,-,W0), (UP,R0,W1),
\* (UP,R1,W0), (DN,R0,W1), (DN,R1,W0), (DN,R0,-) in this order, the
\* initialising W0 step included, none skipped or reordered whether or not
\* failures occur, and pass() is reached only after the sixth step.
C12_SixStepsInOrder ==
  (TestMode /\ step >= 1) =>
    /\ step \in 1..6
    /\ stepLog = [k \in 1..Len(stepLog) |-> k]
    /\ Len(stepLog) = (IF pc = "pass" THEN 6 ELSE step - 1)
    /\ pc = "once_return" =>
         LET e == MarchCMinus[step]
         IN  /\ firstAddr = (IF e[1] = "UP" THEN 0 ELSE AddrMod - 1)
             /\ lastAddr = (IF e[1] = "UP" THEN AddrMod - 1 ELSE 0)
             /\ \A r \in Byte, c \in Byte :
                  /\ ReadsAt(r, c) = (IF e[2] = "-" THEN 0 ELSE 1)
                  /\ WritesAt(r, c) = (IF e[3] = "-" THEN 0 ELSE 1)
             /\ (e[3] # "-" /\ fault = NoFault) =>
                  \A x \in BusCells : writes[x] = 1 => mem[CellOf(chip, x)] = BitNamed(e[3])
             /\ (e[2] # "-" /\ fault = NoFault) => mismatches = 0
             /\ (e[2] # "-" /\ fault = NoFault /\ e[3] = "-") =>
                  \A x \in BusCells : reads[x] = 1 => mem[CellOf(chip, x)] = BitNamed(e[2])

C12_Witness ==
  /\ TestMode
  /\ pc = "pass"
  /\ stepLog = <<1, 2, 3, 4, 5, 6>>
  /\ iterFailed
  /\ chip = DRAM_4164
  /\ latent = NoFault

\* C13 as stated: pass() is invoked only for an iteration in which fail() was
\* not invoked.
C13_PassOnlyAfterCleanIteration == pc = "pass" => ~iterFailed

\* C13, amended: pass() is invoked at the end of every march iteration,
\* whether or not fail() was invoked in it; it sets green only if red is
\* clear and changes no other output, so at the end of an iteration in which
\* fail() was invoked red is set and green stays off.
C13_PassAfterEveryIteration ==
  [][
     /\ (pc = "once_return" /\ step = 6 /\ quad = Len(MarchOnceCalls(CHIP, DIR))) => pc' = "pass"
     /\ pc = "pass" =>
          /\ PORTB' = (IF RedOn THEN PORTB ELSE BitOr(PORTB, LED_G))
          /\ iterFailed => (RedOn /\ ~GreenOn /\ ~GreenOn')
          /\ ~iterFailed /\ ~RedOn => GreenOn'
          /\ PORTC' = PORTC /\ PORTD' = PORTD
    ]_vars

C13_Witness ==
  /\ pc = "pass"
  /\ iterFailed
  /\ RedOn
  /\ ~GreenOn
  /\ mismatches > 0

StartupPcs == {"config", "init_dram", "wake_low", "wake_delay", "wake_high"}

\* C14: config() comes first, then the timer wait, then exactly 8 RAS-only
\* cycles in which CAS, WE and RE stay high; all of this is complete before
\* the mode-select input is sampled and before the first read or write cycle,
\* and no RAS-only cycle is issued afterwards.
C14_StartupOrder ==
  /\ pc = "init_dram" => (PORTC = CTRL_DEFAULT /\ rasOnly = 0)
  /\ pc \in StartupPcs \ {"config"} =>
       /\ HasBit(PORTC, CAS) /\ HasBit(PORTC, WE) /\ HasBit(PORTC, RE)
       /\ HasBit(PORTC, RAS) <=> pc \in {"init_dram", "wake_low"}
  /\ pc \in StartupPcs =>
       /\ \A x \in BusCells : reads[x] = 0 /\ writes[x] = 0
       /\ probeLog = <<>>
       /\ step = 0 /\ address = 0 /\ loopIters = 0
  /\ pc = "wake_low" => (i \in 1..8 /\ rasOnly = 8 - i)
  /\ pc \in {"wake_delay", "wake_high"} => (i \in 1..8 /\ rasOnly = 8 - i /\ nops <= 2)
  /\ pc = "wake_high" => nops = 2
  /\ pc \notin StartupPcs => rasOnly = 8
  /\ pc = "main" => PORTC = CTRL_DEFAULT

C14_Witness ==
  /\ pc = "main"
  /\ rasOnly = 8
  /\ i = 0
  /\ modeSel = 0

MeasurePcs ==
  {"measure_rac", "measure_toggle", "measure_write_row", "measure_write_col",
   "measure_write_reset", "measure_read", "measure_read_row", "measure_read_col",
   "measure_test", "measure_reset", "measure_blink"}

\* The program is inside measure_rac(), or in a fail() called from it
InMeasureRac == pc \in MeasurePcs \/ (pc \in {"fail", "fail_red", "fail_green"} /\ ret \in MeasurePcs)

\* C15: after the start-up sample the program is in measure_rac exactly when
\* the mode-select input read low; from then on measure_rac never returns
\* and the probe, march_step and pass() never run, and with the input high
\* measure_rac never runs.
C15_ModesExclusive ==
  /\ pc \notin StartupPcs \cup {"main"} => (InMeasureRac <=> modeSel = 0)
  /\ modeSel = 0 =>
       /\ step = 0 /\ quad = 0 /\ loopIters = 0
       /\ probeLog = <<>> /\ stepLog = <<>> /\ quadLog = <<>>
       /\ ~passed
       /\ pc \notin {"is_41256", "probe_write0", "probe_read", "probe_return", "march_step",
                      "march_once", "loop", "after_read", "do_write", "loop_end",
                      "once_return", "pass", "read", "write"}
  /\ modeSel = 1 =>
       /\ pc \notin MeasurePcs
       /\ phase = 0 /\ ICR1L = 0 /\ TCCR1B = 0
       /\ pc \in {"fail", "fail_red", "fail_green"} => ret = "do_write"

C15_Witness ==
  /\ modeSel = 0
  /\ pc = "measure_blink"
  /\ phase = 1
  /\ address = 0

CouplingFault == [NoFault EXCEPT !.cf = {<<AddrCell(0), AddrCell(1)>>}]

\* C16: a failure aborts nothing. fail() returns into the loop body, which
\* still writes the failing address when the step writes; every pass still
\* runs over all addresses exactly once and the iteration still reaches
\* pass(); every mismatch of a pass invokes fail() once. With the coupling
\* fault (a 1 written to address 0 forces address 1 to 1) the step UP/R0/W1
\* fails at address 1 only and runs on to the last address.
C16_FailureNeverAborts ==
  TestMode =>
    /\ pc \in {"fail", "fail_red", "fail_green"} => ret = "do_write"
    /\ (pc = "do_write" /\ WRITE # WX) => WritesAt(row, col) = 0
    /\ (pc = "loop_end" /\ mismatches > 0) =>
         /\ WritesAt(MarchRow(lastAddr), MarchCol(lastAddr)) = (IF WRITE # WX THEN 1 ELSE 0)
         /\ ReadsAt(MarchRow(lastAddr), MarchCol(lastAddr)) = 1
    /\ pc \in {"loop", "loop_end", "once_return"} =>
         (failCalls = mismatches /\ errFalls = mismatches /\ Cardinality(failCells) = mismatches)
    /\ (pc = "once_return" /\ mismatches > 0) =>
         /\ loopIters = AddrMod
         /\ lastAddr = (IF DIR = UP THEN AddrMod - 1 ELSE 0)
         /\ \A r \in Byte, c \in Byte :
              ReadsAt(r, c) = 1 /\ WritesAt(r, c) = (IF WRITE # WX THEN 1 ELSE 0)
    /\ (pc = "pass" /\ iterFailed) => stepLog = <<1, 2, 3, 4, 5, 6>>
    /\ (fault = CouplingFault /\ chip = DRAM_4164 /\ step = 2 /\ pc = "once_return") =>
         /\ failCells = {AddrCell(1)}
         /\ lastAddr = AddrMod - 1

C16_Witness ==
  /\ TestMode
  /\ fault = CouplingFault
  /\ chip = DRAM_4164
  /\ step = 2
  /\ pc = "once_return"
  /\ failCalls = 1
  /\ writes[AddrCell(1)] = 1
  /\ lastAddr = AddrMod - 1

\* C17: in the march, DIN changes only in the set_data call at the head of a
\* march_step, which drives it to 0 for W0 and to 1 for W1 and for the
\* read-only step and runs no bus cycle; read(), write(), set_a8(), fail()
\* and pass() leave it alone, so it holds the step's value through every
\* cycle of the step.
C17_DataInSetOncePerStep ==
  [][ (TestMode /\ step >= 1) =>
        /\ BitOf(PORTB', DIN) # BitOf(PORTB, DIN) => (pc = "march_step" /\ pc' = "march_once")
        /\ (pc = "march_step" /\ pc' = "march_once") =>
             /\ BitOf(PORTB', DIN) = (IF MarchCMinus[step][3] = "W0" THEN 0 ELSE 1)
             /\ PORTC' = PORTC /\ PORTD' = PORTD
             /\ HasBit(PORTC, RAS) /\ HasBit(PORTC, CAS)
        /\ pc \notin {"march_step", "pass"} =>
             BitOf(PORTB, DIN) = (IF MarchCMinus[step][3] = "W0" THEN 0 ELSE 1)
    ]_vars

C17_Witness ==
  /\ TestMode
  /\ step = 6
  /\ pc = "fail_green"
  /\ BitOf(PORTB, DIN) = 1
  /\ mismatches = 2

\* Blinks that report a captured count: fast 1, nominal 2, slow 3
BlinksFor(count) == IF count < 5 THEN 1 ELSE IF count = 5 THEN 2 ELSE 3

\* C18: in measurement mode, at the start of every blink slot of the blink
\* period green is turned on exactly when the slot's index is below the
\* number of blinks that reports the most recently captured count (1 below
\* the threshold 5, 2 at the threshold, 3 above it), whatever was captured
\* before.
C18_BlinksReportLastCount ==
  [][ (/\ pc = "measure_blink"
       /\ address = 0
       /\ ICR1L # 0
       /\ phase % ByteMod = 0
       /\ (phase \div ByteMod) % 4 = 0) =>
        (GreenOn' <=> (phase \div (4 * ByteMod)) % 4 < BlinksFor(ICR1L))
    ]_vars

ReadPcs == {"read", "read_row", "read_col_addr", "read_col", "read_delay", "read_sample", "read_reset"}

\* C19: a read() cycle is, in this order: the row byte and row A8 placed;
\* one store that makes RAS and RE low with CAS and WE high; the column byte
\* and column A8 placed; one store that makes CAS low with RAS and RE still
\* low; at least 3 delay cycles; one sample of DOUT while RAS and CAS are
\* low; one store that returns every control line to high. CAS is never low
\* while RAS is high, and WE is high throughout a read cycle.
C19_ReadCycleSequence ==
  [][ /\ ~HasBit(PORTC', CAS) => ~HasBit(PORTC', RAS)
      /\ pc \in ReadPcs => (HasBit(PORTC, WE) /\ HasBit(PORTC', WE))
      /\ pc = "read" =>
           /\ HasBit(PORTC, RAS) /\ HasBit(PORTC, CAS)
           /\ PORTD' = row /\ PORTC' = PORTC
           /\ rA8 # BitX => BitOf(PORTB', A8) = rA8
           /\ pc' = "read_row"
      /\ pc = "read_row" =>
           /\ PORTD = row
           /\ ~HasBit(PORTC', RAS) /\ ~HasBit(PORTC', RE) /\ HasBit(PORTC', CAS)
           /\ rowLatch' = <<BitOf(PORTB, A8), row>>
           /\ PORTD' = PORTD /\ PORTB' = PORTB
           /\ pc' = "read_col_addr"
      /\ pc = "read_col_addr" =>
           /\ PORTD' = col /\ PORTC' = PORTC
           /\ cA8 # BitX => BitOf(PORTB', A8) = cA8
           /\ pc' = "read_col"
      /\ pc = "read_col" =>
           /\ PORTD = col
           /\ ~HasBit(PORTC, RAS) /\ ~HasBit(PORTC, RE) /\ HasBit(PORTC, CAS)
           /\ PORTC' = BitAnd(PORTC, BitNot(CAS))
           /\ dout' = mem[CellOf(chip, <<rowLatch[1], BitOf(PORTB, A8), row, col>>)]
           /\ PORTD' = PORTD /\ PORTB' = PORTB
           /\ pc' = "read_delay"
      /\ pc = "read_delay" =>
           /\ nops' >= 3
           /\ PORTC' = PORTC /\ PORTD' = PORTD /\ PORTB' = PORTB
           /\ pc' = "read_sample"
      /\ pc = "read_sample" =>
           /\ nops >= 3
           /\ ~HasBit(PORTC, RAS) /\ ~HasBit(PORTC, CAS) /\ ~HasBit(PORTC, RE)
           /\ result' = dout * DOUT
           /\ PORTC' = PORTC
           /\ pc' = "read_reset"
      /\ pc = "read_reset" =>
           /\ PORTC' = CTRL_DEFAULT
           /\ pc' \notin ReadPcs
    ]_vars

C19_Witness ==
  /\ pc = "read_sample"
  /\ step = 3
  /\ nops = 3
  /\ PORTC = CTRL_READ_COL
  /\ dout = 1
  /\ PORTD = col

Reverse(s) == [k \in 1..Len(s) |-> s[Len(s) + 1 - k]]

\* A cell as the number colA8 : rowA8 : col : row
CellValue(x) == ((x[2] * 2 + x[1]) * ByteMod + x[4]) * ByteMod + x[3]

\* The cell of the bus cycles of the loop body just run
VisitedCell ==
  IF CHIP = DRAM_41256 THEN <<rowLatch[1], BitOf(PORTB, A8), row, col>> ELSE <<0, 0, row, col>>

\* The visit sequences of the two directions, compared as sequences
DownReversesUp ==
  \A C \in {DRAM_4164, DRAM_41256} :
    /\ StepVisits[C, DN] = Reverse(StepVisits[C, UP])
    /\ Len(StepVisits[C, UP]) = (IF C = DRAM_41256 THEN 4 * AddrMod ELSE AddrMod)
    /\ \A k \in 1..Len(StepVisits[C, UP]) : CellValue(StepVisits[C, UP][k]) = k - 1

\* C20: for both chip kinds the cells a DN march_step visits are the cells an
\* UP march_step visits, in exactly the reverse order: UP visits the cells in
\* ascending order of colA8:rowA8:col:row, across all four quadrants on the
\* 41256, and DN in descending order; every loop body the program runs
\* visits the cell this order gives for its place in the step.
C20_DownIsReverseOfUp ==
  /\ DownReversesUp
  /\ (TestMode /\ step >= 1 /\ pc = "loop_end") =>
       LET n == (quad - 1) * AddrMod + loopIters
           total == Len(StepVisits[CHIP, DIR])
       IN  /\ n \in 1..total
           /\ VisitedCell = StepVisits[CHIP, DIR][n]
           /\ CellValue(VisitedCell) = (IF DIR = UP THEN n - 1 ELSE total - n)
           /\ CHIP = DRAM_41256 =>
                reads[VisitedCell] + writes[VisitedCell] = (IF READ # RX /\ WRITE # WX THEN 2 ELSE 1)

C20_Witness ==
  /\ TestMode
  /\ CHIP = DRAM_41256
  /\ DIR = DN
  /\ pc = "loop_end"
  /\ quad = 2
  /\ loopIters = 1
  /\ VisitedCell = <<0, 1, ByteMod - 1, ByteMod - 1>>

====
